---- MODULE Spec2Model ----
(***************************************************************************)
(* A model of src/index.py: the Streamlit script of the AI file summarizer *)
(* (the Content Extractor get_file_content, the Completion Client          *)
(* make_api_call, the sidebar Scan handler, the summarization loop and the *)
(* chat handler), and the properties its specification states of them.     *)
(*                                                                         *)
(* Python strings are sequences of runs [ch, n]: the text ch repeated n    *)
(* times.  A character is a run of length 1; a fixed piece of an f-string  *)
(* is one run holding the literal; a long file is a few long runs.  The    *)
(* strings the code inspects character by character (file names, chat      *)
(* questions, model answers) are made of single characters.                *)
(***************************************************************************)
EXTENDS Integers, Sequences, FiniteSets, TLC

VARIABLES
    api_key,        \* the sidebar's API key text input (index.py:261)
    path_input,     \* the sidebar's directory text input (index.py:262)
    session_state,  \* st.session_state: messages, scanned_files, path_input
    pc,             \* where the script run stands: "idle", "scan", or a pure-function check
    files_to_process, \* the walk's result, while the summarization loop runs
    i,              \* the summarization loop's next index into files_to_process
    chat_visible,   \* whether the last finished run rendered st.chat_input
    run,            \* what the current script run has done so far
    ev              \* what the last step did (its inputs and outputs)

vars == <<api_key, path_input, session_state, pc, files_to_process, i,
          chat_visible, run, ev>>

-----------------------------------------------------------------------------
(* Bounds of the model *)

\* the transcript is allowed to grow to this many entries
MaxMessages == 3
\* the longest chat question the mention-detection check enumerates
MaxQLen == 5

-----------------------------------------------------------------------------
(* Strings *)

Lit(s) == << [ch |-> s, n |-> 1] >>

Chars(cs) == [k \in DOMAIN cs |-> [ch |-> cs[k], n |-> 1]]

Rep(c, count) == IF count = 0 THEN << >> ELSE << [ch |-> c, n |-> count] >>

RECURSIVE TextLen(_)
TextLen(s) == IF s = << >> THEN 0 ELSE Head(s).n + TextLen(Tail(s))

\* s[:k]
RECURSIVE Take(_, _)
Take(s, k) ==
    IF s = << >> \/ k <= 0 THEN << >>
    ELSE IF Head(s).n >= k THEN << [ch |-> Head(s).ch, n |-> k] >>
    ELSE << Head(s) >> \o Take(Tail(s), k - Head(s).n)

\* the characters str.isspace() and str.strip() treat as whitespace
Whitespace == {" ", "\n", "\t", "\r"}

\* str.isspace(): at least one character, and every character whitespace
isspace(s) == s # << >> /\ \A k \in DOMAIN s : s[k].ch \in Whitespace

RECURSIVE LStrip(_)
LStrip(s) ==
    IF s = << >> THEN << >>
    ELSE IF Head(s).ch \in Whitespace THEN LStrip(Tail(s)) ELSE s

RECURSIVE RStrip(_)
RStrip(s) ==
    IF s = << >> THEN << >>
    ELSE IF s[Len(s)].ch \in Whitespace THEN RStrip(SubSeq(s, 1, Len(s) - 1)) ELSE s

\* str.strip()
Strip(s) == RStrip(LStrip(s))

\* str.lower() and re.IGNORECASE, letter by letter
LowerOf == [A |-> "a", B |-> "b", C |-> "c", D |-> "d", E |-> "e", F |-> "f", G |-> "g", H |-> "h", I |-> "i", J |-> "j", K |-> "k", L |-> "l", M |-> "m",
            N |-> "n", O |-> "o", P |-> "p", Q |-> "q", R |-> "r", S |-> "s", T |-> "t", U |-> "u", V |-> "v", W |-> "w", X |-> "x", Y |-> "y", Z |-> "z"]

LowerChar(c) == IF c \in DOMAIN LowerOf THEN LowerOf[c] ELSE c

\* str.lower()
Lower(s) == [k \in DOMAIN s |-> [ch |-> LowerChar(s[k].ch), n |-> s[k].n]]

\* the regular expression class \w
WordChars ==
    DOMAIN LowerOf \cup { LowerOf[c] : c \in DOMAIN LowerOf }
      \cup {"0", "1", "2", "3", "4", "5", "6", "7", "8", "9", "_"}

IsWordChar(c) == c \in WordChars

-----------------------------------------------------------------------------
(* Python values that are not always strings *)

None == [t |-> "None"]
Str(s) == [t |-> "str", s |-> s]
Num(k) == [t |-> "num", n |-> k]
List(items) == [t |-> "list", items |-> items]
Dict(d) == [t |-> "dict", d |-> d]
EmptyDict == [t |-> "dict", d |-> << >>]

\* bool(v)
Truthy(v) ==
    CASE v.t = "None" -> FALSE
      [] v.t = "str" -> v.s # << >>
      [] v.t = "num" -> v.n # 0
      [] v.t = "list" -> v.items # << >>
      [] v.t = "dict" -> DOMAIN v.d # {}

\* the outcome of evaluating an expression: a value, or an exception
Ok(v) == [exc |-> "", val |-> v]
Exc(name) == [exc |-> name, val |-> None]

\* v.get(key, default)
Get(v, key, default) ==
    IF v.t = "dict"
    THEN Ok(IF key \in DOMAIN v.d THEN v.d[key] ELSE default)
    ELSE Exc("AttributeError")

\* v[0], for a v that is truthy
Index0(v) ==
    CASE v.t = "list" -> Ok(v.items[1])
      [] v.t = "str" -> Ok(Str(<< [ch |-> v.s[1].ch, n |-> 1] >>))
      [] v.t = "dict" -> Exc("KeyError")
      [] OTHER -> Exc("TypeError")

\* v.strip()
StripValue(v) == IF v.t = "str" THEN Ok(Str(Strip(v.s))) ELSE Exc("AttributeError")

-----------------------------------------------------------------------------
(* get_file_content: the Content Extractor (index.py:205-244) *)

\* the truncation length of the summary pass (index.py:244)
SummaryCap == 15000

\* os.path.join(root, file_name)
Join(root, file_name) == [root |-> root, name |-> file_name]

LastDot(name) ==
    IF \E k \in DOMAIN name : name[k].ch = "."
    THEN CHOOSE k \in DOMAIN name :
            name[k].ch = "." /\ \A m \in DOMAIN name : m > k => name[m].ch # "."
    ELSE 0

\* os.path.splitext(p)[1]: from the last dot of the base name, leading dots apart
SplitextExt(name) ==
    LET d == LastDot(name) IN
    IF d = 0 \/ \A k \in 1..(d - 1) : name[k].ch = "."
    THEN << >>
    ELSE SubSeq(name, d, Len(name))

text_ext == { Chars(<<".", "t", "x", "t">>), Chars(<<".", "m", "d">>),
              Chars(<<".", "p", "y">>), Chars(<<".", "j", "a", "v", "a">>),
              Chars(<<".", "j", "s">>), Chars(<<".", "h", "t", "m", "l">>),
              Chars(<<".", "c", "s", "s">>), Chars(<<".", "j", "s", "o", "n">>),
              Chars(<<".", "x", "m", "l">>), Chars(<<".", "c", "s", "v">>),
              Chars(<<".", "l", "o", "g">>), Chars(<<".", "i", "n", "i">>),
              Chars(<<".", "c", "f", "g">>), Chars(<<".", "s", "h">>),
              Chars(<<".", "b", "a", "t">>) }

document_ext == { Chars(<<".", "p", "d", "f">>), Chars(<<".", "p", "p", "t", "x">>),
                  Chars(<<".", "x", "l", "s", "x">>), Chars(<<".", "x", "l", "s">>),
                  Chars(<<".", "d", "o", "c", "x">>) }

\* the allow-list of the directory scan (index.py:285-287)
supported_ext == text_ext \cup document_ext

\* What reading and parsing the file does, which the code does not decide: the
\* library returns the file's text, or raises an exception whose str() is message.
ParsedText(text) == [raises |-> FALSE, message |-> << >>, text |-> text]
ParserRaises(message) == [raises |-> TRUE, message |-> message, text |-> << >>]

\* get_file_content with the truncation of line 244 left out
get_file_content_uncapped(file_path, full_content, parsed) ==
    IF Lower(SplitextExt(file_path.name)) \notin supported_ext
    THEN [content |-> None, error |-> Str(Lit("Unsupported file type"))]
    ELSE IF parsed.raises
    THEN [content |-> None, error |-> Str(parsed.message)]
    ELSE [content |-> Str(parsed.text), error |-> None]

\* get_file_content(file_path, full_content) on a file that reads as `parsed`;
\* the result is the pair (content, error)
get_file_content(file_path, full_content, parsed) ==
    LET extension == Lower(SplitextExt(file_path.name)) IN
    IF extension \notin supported_ext
    THEN [content |-> None, error |-> Str(Lit("Unsupported file type"))]
    ELSE IF parsed.raises
    THEN [content |-> None, error |-> Str(parsed.message)]
    ELSE IF full_content
    THEN [content |-> Str(parsed.text), error |-> None]
    ELSE [content |-> Str(Take(parsed.text, SummaryCap)), error |-> None]

-----------------------------------------------------------------------------
(* make_api_call: the Completion Client (index.py:168-202) *)

Returned(s, posted) == [exc |-> "", val |-> s, posted |-> posted]
Raised(name, posted) == [exc |-> name, val |-> << >>, posted |-> posted]

\* What the HTTP exchange does, which the code does not decide:
\*   requests.post raises a RequestException e (connection error, timeout);
\*   or a response arrives with a status, and a body that is JSON or is not.
NetworkFailure(e) == [kind |-> "exception", e |-> e, status |-> 0, is_json |-> FALSE,
                      json |-> None, repr |-> ""]
Response(status, e, is_json, json, repr) ==
    [kind |-> "response", e |-> e, status |-> status, is_json |-> is_json,
     json |-> json, repr |-> repr]

\* evaluation goes on with the value, or stops at the exception
Then(r, F(_)) == IF r.exc # "" THEN r ELSE F(r.val)

Unexpected(repr) ==
    Ok(Str(Lit("[API Error: Unexpected response format. Response: ")
             \o Lit(repr) \o Lit("]")))

\* lines 194-197 on the parsed body `result`: the value returned, or the exception
ReadCandidates(result, repr) ==
    Then(Get(result, "candidates", None), LAMBDA candidates :
      IF ~Truthy(candidates) THEN Unexpected(repr) ELSE
      Then(Index0(candidates), LAMBDA candidate :
      Then(Get(candidate, "content", EmptyDict), LAMBDA content :
      Then(Get(content, "parts", None), LAMBDA parts :
        IF ~Truthy(parts) THEN Unexpected(repr) ELSE
        Then(Index0(parts), LAMBDA part :
        Then(Get(part, "text", Str(Lit("[Could not extract text from response]"))),
             LAMBDA text : StripValue(text)))))))

\* the exceptions the second except clause catches (index.py:201)
CaughtAsParseError == {"KeyError", "IndexError"}

\* the try block's outcome r, past the except clauses of lines 201-202
Except(r, posted) ==
    IF r.exc = "" THEN Returned(r.val.s, posted)
    ELSE IF r.exc \in CaughtAsParseError
    THEN Returned(Lit("[API Error: Could not parse the summary from the API response]"),
                  posted)
    ELSE Raised(r.exc, posted)

\* requests.post(url, json=payload): the key goes in the URL, the prompt in the body
Post(key, prompt) == << [key |-> key, model |-> "gemini-2.0-flash", text |-> prompt] >>

\* the except clause of lines 199-200
RequestError(e, posted) ==
    Returned(Lit("[API Request Error: ") \o e \o Lit("]"), posted)

\* make_api_call with the key check of lines 173-174 left out
make_api_call_without_key_check(key, prompt, http) ==
    IF http.kind = "exception" THEN RequestError(http.e, Post(key, prompt))
    ELSE IF http.status >= 400 THEN RequestError(http.e, Post(key, prompt))
    ELSE IF ~http.is_json THEN RequestError(http.e, Post(key, prompt))
    ELSE Except(ReadCandidates(http.json, http.repr), Post(key, prompt))

make_api_call(key, prompt, http) ==
    IF key = "" THEN Returned(Lit("[Error: API key not provided]"), << >>)
    ELSE IF http.kind = "exception" THEN RequestError(http.e, Post(key, prompt))
    \* response.raise_for_status(): an HTTPError, a RequestException
    ELSE IF http.status >= 400 THEN RequestError(http.e, Post(key, prompt))
    \* response.json(): requests' JSONDecodeError, a RequestException
    ELSE IF ~http.is_json THEN RequestError(http.e, Post(key, prompt))
    ELSE Except(ReadCandidates(http.json, http.repr), Post(key, prompt))

-----------------------------------------------------------------------------
(* st.session_state (index.py:253-256) and the scan mapping *)

\* path_input is None until a Scan press stores it ("path_input" in st.session_state)
InitialSession == [messages |-> << >>, scanned_files |-> << >>, path_input |-> None]

\* scanned_files is a dict, kept as its items in insertion order
HasKey(d, name) == \E k \in DOMAIN d : d[k].name = name

Lookup(d, name) == d[CHOOSE k \in DOMAIN d : d[k].name = name]

\* d[name] = {"path": path, "summary": summary}: a known key keeps its place
DictSet(d, name, path, summary) ==
    LET item == [name |-> name, path |-> path, summary |-> summary] IN
    IF HasKey(d, name)
    THEN [k \in DOMAIN d |-> IF d[k].name = name THEN item ELSE d[k]]
    ELSE Append(d, item)

-----------------------------------------------------------------------------
(* The sidebar's Scan button (index.py:264-274) *)

\* the directories of the file system; every other path is not a directory
Directories == {"d"}

isdir(path) == path \in Directories

ScanButton(session, key, path) ==
    LET cleared == [session EXCEPT !.scanned_files = << >>, !.messages = << >>] IN
    IF key = "" THEN [session |-> cleared, error |-> TRUE]
    ELSE IF path = "" \/ ~isdir(path) THEN [session |-> cleared, error |-> TRUE]
    ELSE [session |-> [cleared EXCEPT !.path_input = Str(Lit(path))], error |-> FALSE]

-----------------------------------------------------------------------------
(* The directory walk (index.py:289-293) *)

\* one directory's files, kept if their lower-cased extension is on the allow-list
RECURSIVE KeepSupported(_, _)
KeepSupported(root, files) ==
    IF files = << >> THEN << >>
    ELSE (IF Lower(SplitextExt(Head(files))) \in supported_ext
          THEN << [path |-> Join(root, Head(files)), name |-> Head(files)] >>
          ELSE << >>) \o KeepSupported(root, Tail(files))

\* os.walk's (root, files) pairs, flattened in walk order
RECURSIVE Walk(_)
Walk(listing) ==
    IF listing = << >> THEN << >>
    ELSE KeepSupported(Head(listing).root, Head(listing).files) \o Walk(Tail(listing))

-----------------------------------------------------------------------------
(* One iteration of the summarization loop (index.py:297-316) *)

CouldNotRead == Lit("[Could not read file]")
EmptyFile == Lit("[File is empty or contains no readable text]")

summary_prompt(file_name, content) ==
    Lit("Provide a concise, one-paragraph summary for a file named '") \o file_name
      \o Lit("'. Focus on its main purpose and key topics.\n\n---\n\n") \o content

\* line 306: not error and content and not content.isspace()
HasText(got) == ~Truthy(got.error) /\ Truthy(got.content) /\ ~isspace(got.content.s)

\* lines 303-310 once `call`, the completion call of line 308, is known
Summary(got, call) ==
    IF HasText(got) THEN call.val
    ELSE IF ~Truthy(got.error) THEN EmptyFile
    ELSE CouldNotRead

\* lines 303-316 for what get_file_content returned
Summarize(scanned_files, file, got, call) ==
    [exc |-> IF HasText(got) THEN call.exc ELSE "",
     called |-> HasText(got),
     prompt |-> IF HasText(got) THEN summary_prompt(file.name, got.content.s) ELSE << >>,
     posted |-> IF HasText(got) THEN call.posted ELSE << >>,
     returned |-> IF HasText(got) THEN call.val ELSE << >>,
     scanned_files |-> IF HasText(got) /\ call.exc # "" THEN scanned_files
                       ELSE DictSet(scanned_files, file.name, file.path,
                                    Summary(got, call))]

SummaryCall(key, file, got, http) ==
    IF HasText(got)
    THEN make_api_call(key, summary_prompt(file.name, got.content.s), http)
    ELSE Returned(<< >>, << >>)

\* The iteration for `file`, which reads as `parsed`, the HTTP exchange (if one
\* is made) going as `http`.  exc names the exception that ends the run, if any.
SummarizeContent(scanned_files, key, file, got, http) ==
    Summarize(scanned_files, file, got, SummaryCall(key, file, got, http))

SummarizeFile(scanned_files, key, file, parsed, http) ==
    SummarizeContent(scanned_files, key, file,
                     get_file_content(file.path, FALSE, parsed), http)

-----------------------------------------------------------------------------
(* The chat input handler (index.py:339-379) *)

WordAt(s, k) == k \in DOMAIN s /\ IsWordChar(s[k].ch)

\* \b between s[k] and s[k+1]
Boundary(s, k) == WordAt(s, k) # WordAt(s, k + 1)

\* re.search(r'\b' + re.escape(name) + r'\b', prompt, re.IGNORECASE)
re_search(name, prompt) ==
    \E p \in 0..(Len(prompt) - Len(name)) :
        /\ Boundary(prompt, p)
        /\ \A k \in DOMAIN name : LowerChar(prompt[p + k].ch) = LowerChar(name[k].ch)
        /\ Boundary(prompt, p + Len(name))

\* the keys of the dict that match, as places in its order
Matching(scanned_files, prompt) ==
    { k \in DOMAIN scanned_files : re_search(scanned_files[k].name, prompt) }

FirstOf(scanned_files, matching) ==
    IF matching = {} THEN None
    ELSE Str(scanned_files[CHOOSE k \in matching : \A m \in matching : k <= m].name)

\* the loop of lines 348-352: the first key, in the dict's order, that matches
mentioned_file(scanned_files, prompt) ==
    FirstOf(scanned_files, Matching(scanned_files, prompt))

\* str(v) of an f-string's {v}
Format(v) == IF v.t = "None" THEN Lit("None") ELSE v.s

grounding_prompt(prompt, file_name, full_content) ==
    Lit("You are a helpful assistant. The user is asking a question about a specific file. Here is the user's question: '")
      \o prompt
      \o Lit("'\n\nAnd here is the FULL text content of the file named '")
      \o file_name \o Lit("':\n\n---\n\n") \o Format(full_content)
      \o Lit("\n\n---\n\nPlease answer the user's question based on the provided file content.")

\* line 365
sorry(file_name, error) ==
    Lit("I'm sorry, I couldn't read the full content of ") \o file_name
      \o Lit(". Error: ") \o error.s

\* lines 373-375: no file is mentioned
GeneralAnswer(prompt, call) ==
    [mentioned |-> None, extracted |-> FALSE, error |-> None, content |-> None,
     called |-> TRUE, final_prompt |-> prompt, posted |-> call.posted,
     exc |-> call.exc, response |-> call.val]

\* lines 363-372: the mentioned file has been read again, as `got`
FileAnswer(prompt, mentioned, got, final_prompt, call) ==
    [mentioned |-> mentioned, extracted |-> TRUE, error |-> got.error,
     content |-> got.content,
     called |-> ~Truthy(got.error),
     final_prompt |-> IF Truthy(got.error) THEN prompt ELSE final_prompt,
     posted |-> IF Truthy(got.error) THEN << >> ELSE call.posted,
     exc |-> IF Truthy(got.error) THEN "" ELSE call.exc,
     response |-> IF Truthy(got.error) THEN sorry(mentioned.s, got.error) ELSE call.val]

AboutFile(session, key, prompt, mentioned, got, http) ==
    FileAnswer(prompt, mentioned, got,
               grounding_prompt(prompt, mentioned.s, got.content),
               IF Truthy(got.error) THEN Returned(<< >>, << >>)
               ELSE make_api_call(key, grounding_prompt(prompt, mentioned.s, got.content),
                                  http))

RespondAbout(session, key, prompt, mentioned, parsed, http) ==
    IF Truthy(mentioned)
    THEN AboutFile(session, key, prompt, mentioned,
                   get_file_content(Lookup(session.scanned_files, mentioned.s).path,
                                    TRUE, parsed),
                   http)
    ELSE GeneralAnswer(prompt, make_api_call(key, prompt, http))

\* the contents of the transcript, one after the other
RECURSIVE TranscriptText(_)
TranscriptText(turns) ==
    IF turns = << >> THEN << >> ELSE Head(turns).content \o TranscriptText(Tail(turns))

\* Respond with the transcript so far put in front of the question it sends
Respond_with_history(session, key, prompt, parsed, http) ==
    RespondAbout(session, key, TranscriptText(session.messages) \o prompt,
                 mentioned_file(session.scanned_files, prompt), parsed, http)

\* lines 348-375: what the turn extracts, what it sends, and its response
Respond(session, key, prompt, parsed, http) ==
    RespondAbout(session, key, prompt, mentioned_file(session.scanned_files, prompt),
                 parsed, http)

\* lines 340 and 379: the user turn is appended first, the assistant turn last,
\* unless an exception has ended the run in between
Transcript(messages, prompt, r) ==
    IF r.exc # ""
    THEN Append(messages, [role |-> "user", content |-> prompt])
    ELSE Append(Append(messages, [role |-> "user", content |-> prompt]),
                [role |-> "assistant", content |-> r.response])

ChatTurnOf(session, prompt, r) ==
    [turn |-> r, session |-> [session EXCEPT !.messages = Transcript(@, prompt, r)]]

\* lines 339-379
ChatTurn(session, key, prompt, parsed, http) ==
    ChatTurnOf(session, prompt, Respond(session, key, prompt, parsed, http))

-----------------------------------------------------------------------------
(* The inputs the environment supplies *)

ApiKeys == {"", "k"}

\* directory inputs: empty, not a directory, a directory
PathInputs == {"", "nodir", "d"}

A_PY == Chars(<<"a", ".", "p", "y">>)
README_MD == Chars(<<"R", "E", "A", "D", "M", "E", ".", "M", "D">>)
X_BIN == Chars(<<"x", ".", "b", "i", "n">>)

\* what os.walk finds under the directory: nothing; one file; two supported
\* files, one that is not on the allow-list, and a second a.py further down
Listings ==
    { << [root |-> "d", files |-> << >>] >>,
      << [root |-> "d", files |-> << A_PY >>] >>,
      << [root |-> "d", files |-> << A_PY, README_MD, X_BIN >>],
         [root |-> "d/sub", files |-> << A_PY >>] >> }

\* what reading a file yields: no text, blank text, a short text, a text one
\* character over the cap, a text whose first SummaryCap characters are blank, a
\* parser exception with a message, and one whose str() is empty (MemoryError)
ReadOutcomes ==
    { ParsedText(<< >>),
      ParsedText(Rep(" ", 3)),
      ParsedText(Chars(<<"h", "i">>)),
      ParsedText(Rep("a", SummaryCap + 1)),
      ParsedText(Rep(" ", SummaryCap) \o Rep("a", 1)),
      ParserRaises(Lit("file is encrypted")),
      ParserRaises(<< >>) }

\* a body of the documented shape, candidates[0].content.parts[0].text = text
Answer(text) ==
    Dict([candidates |-> List(<< Dict([content |->
            Dict([parts |-> List(<< Dict([text |-> text]) >>)])]) >>)])

Candidates(v) == Dict([candidates |-> v])

Parts(v) == Candidates(List(<< Dict([content |-> Dict([parts |-> v])]) >>))

Json(body, repr) == Response(200, << >>, TRUE, body, repr)

HttpAnswer == Json(Answer(Str(Chars(<<" ", "o", "k", "\n">>))), "")
HttpTextNull == Json(Answer(None), "")
HttpTimeout == NetworkFailure(Lit("Read timed out."))

\* the exchanges the script runs are checked with
HttpOutcomes == { HttpTimeout, HttpAnswer, HttpTextNull }

\* the exchanges make_api_call alone is checked with
AllHttpOutcomes ==
    HttpOutcomes \cup
    { NetworkFailure(Lit("Connection refused")),
      Response(500, Lit("500 Server Error"), FALSE, None, ""),
      Response(429, Lit("429 Client Error"), TRUE, EmptyDict, "{}"),
      Response(200, Lit("Expecting value: line 1 column 1 (char 0)"), FALSE, None, ""),
      Json(EmptyDict, "{}"),
      Json(List(<< >>), "[]"),
      Json(Str(Chars(<<" ", "o", "k", "\n">>)), ""),
      Json(None, "None"),
      Json(Candidates(List(<< >>)), "{'candidates': []}"),
      Json(Candidates(None), "{'candidates': None}"),
      Json(Candidates(Num(5)), ""),
      Json(Candidates(Dict([error |-> Num(1)])), ""),
      Json(Candidates(List(<< Str(Lit("x")) >>)), ""),
      Json(Candidates(List(<< None >>)), ""),
      Json(Candidates(List(<< Dict([finishReason |-> Str(Lit("SAFETY"))]) >>)),
           "{'candidates': [{'finishReason': 'SAFETY'}]}"),
      Json(Candidates(List(<< Dict([content |-> None]) >>)), ""),
      Json(Candidates(List(<< Dict([content |-> Dict([role |-> Str(Lit("model"))])]) >>)),
           "{'candidates': [{'content': {'role': 'model'}}]}"),
      Json(Parts(List(<< >>)), "{'candidates': [{'content': {'parts': []}}]}"),
      Json(Parts(None), "{'candidates': [{'content': {'parts': None}}]}"),
      Json(Parts(Str(Chars(<<" ", "o", "k", "\n">>))), ""),
      Json(Parts(Dict([text |-> Str(Lit("x"))])), ""),
      Json(Parts(List(<< Str(Lit("x")) >>)), ""),
      Json(Parts(List(<< EmptyDict >>)), ""),
      Json(Answer(Num(5)), ""),
      Json(Answer(List(<< >>)), ""),
      Json(Answer(Str(<< >>)), "") }

Q_FILE == Chars(<<"w", "h", "a", "t", " ", "d", "o", "e", "s", " ", "a", ".", "p", "y", " ", "d", "o", "?">>)
Q_GENERAL == Chars(<<"h", "i">>)

\* the chat questions the script runs are checked with
Questions == { Q_FILE, Q_GENERAL }

-----------------------------------------------------------------------------
(* The script runs.                                                          *)
(*                                                                           *)
(* Streamlit runs index.py from the top on every user event.  A run that     *)
(* enters the summarization loop is one step up to the loop, one step per    *)
(* iteration and one step for the rest: an event that arrives meanwhile      *)
(* stops the run at the iteration's st call (index.py:299) and starts the    *)
(* next run; an exception ends the run where it is raised.  Every other run  *)
(* is one step.                                                              *)

NoRun == [button |-> FALSE, error |-> FALSE, walked |-> FALSE,
          extracts |-> 0, calls |-> 0, posts |-> 0, exc |-> ""]

Init ==
    /\ api_key = ""
    /\ path_input = ""
    /\ session_state = InitialSession
    /\ pc = "idle"
    /\ files_to_process = << >>
    /\ i = 1
    /\ chat_visible = FALSE
    /\ run = NoRun
    /\ ev = [kind |-> "init"]

\* index.py:253-283 and, when no scan is due, 323-382 without a chat question:
\* a run with the sidebar holding key and path, the Scan button pressed or not
ScriptRun(key, path, button, listing) ==
    \E pressed \in {IF button THEN ScanButton(session_state, key, path)
                     ELSE [session |-> session_state, error |-> FALSE]} :
    \E s \in {pressed.session} :
    \E scan \in {s.path_input # None /\ s.scanned_files = << >>} :
       /\ api_key' = key
       /\ path_input' = path
       /\ session_state' = s
       /\ IF scan
          THEN /\ pc' = "scan"
               /\ files_to_process' = Walk(listing)
               /\ i' = 1
               /\ chat_visible' = FALSE
          ELSE /\ pc' = "idle"
               /\ UNCHANGED <<files_to_process, i>>
               /\ chat_visible' = (s.scanned_files # << >>)
       /\ run' = [NoRun EXCEPT !.button = button, !.error = pressed.error,
                               !.walked = scan]
       /\ ev' = [kind |-> "run"]

\* the user edits the API key field
EditApiKey ==
    /\ pc \in {"idle", "scan"}
    /\ \E key \in ApiKeys \ {api_key}, listing \in Listings :
          ScriptRun(key, path_input, FALSE, listing)

\* the user edits the directory field
EditPath ==
    /\ pc \in {"idle", "scan"}
    /\ \E path \in PathInputs \ {path_input}, listing \in Listings :
          ScriptRun(api_key, path, FALSE, listing)

\* the user presses "1. Scan & Summarize Directory"
PressScan ==
    /\ pc \in {"idle", "scan"}
    /\ \E listing \in Listings : ScriptRun(api_key, path_input, TRUE, listing)

\* one iteration of the summarization loop
ScanFile ==
    /\ pc = "scan"
    /\ i <= Len(files_to_process)
    /\ \E parsed \in ReadOutcomes, http \in HttpOutcomes :
      \E file \in {files_to_process[i]} :
      \E r \in {SummarizeFile(session_state.scanned_files, api_key, file, parsed, http)} :
           /\ session_state' = [session_state EXCEPT !.scanned_files = r.scanned_files]
           /\ IF r.exc # ""
              THEN pc' = "idle" /\ i' = i
              ELSE pc' = "scan" /\ i' = i + 1
           /\ chat_visible' = FALSE
           /\ run' = [run EXCEPT !.extracts = @ + 1,
                                 !.calls = @ + (IF r.called THEN 1 ELSE 0),
                                 !.posts = @ + Len(r.posted),
                                 !.exc = r.exc]
           /\ ev' = [kind |-> "scan_file", file |-> file, parsed |-> parsed,
                     called |-> r.called, prompt |-> r.prompt,
                     posted |-> r.posted, returned |-> r.returned, exc |-> r.exc]
    /\ UNCHANGED <<api_key, path_input, files_to_process>>

\* the loop is over: index.py:318-338, and no chat question in this run
FinishScan ==
    /\ pc = "scan"
    /\ i > Len(files_to_process)
    /\ pc' = "idle"
    /\ chat_visible' = (session_state.scanned_files # << >>)
    /\ ev' = [kind |-> "scan_done"]
    /\ UNCHANGED <<api_key, path_input, session_state, files_to_process, i, run>>

\* the user submits a chat question: a run in which no scan is due
Ask ==
    /\ pc = "idle"
    /\ chat_visible
    /\ ~(session_state.path_input # None /\ session_state.scanned_files = << >>)
    /\ session_state.scanned_files # << >>
    /\ Len(session_state.messages) < MaxMessages
    /\ \E prompt \in Questions, parsed \in ReadOutcomes, http \in HttpOutcomes :
      \E t \in {ChatTurn(session_state, api_key, prompt, parsed, http)} :
           /\ session_state' = t.session
           /\ run' = [NoRun EXCEPT !.extracts = IF t.turn.extracted THEN 1 ELSE 0,
                                   !.calls = IF t.turn.called THEN 1 ELSE 0,
                                   !.posts = Len(t.turn.posted),
                                   !.exc = t.turn.exc]
           /\ ev' = [kind |-> "chat", question |-> prompt,
                     parsed |-> IF t.turn.extracted THEN parsed ELSE None,
                     turn |-> t.turn]
    /\ pc' = "idle"
    /\ chat_visible' = TRUE
    /\ UNCHANGED <<api_key, path_input, files_to_process, i>>

Next ==
    \/ EditApiKey
    \/ EditPath
    \/ PressScan
    \/ ScanFile
    \/ FinishScan
    \/ Ask

Spec == Init /\ [][Next]_vars

-----------------------------------------------------------------------------
(* The script runs when no event arrives while a run is under way: every run *)
(* goes on to its end, or to the exception that ends it.                     *)

EditApiKeyIdle == pc = "idle" /\ EditApiKey

EditPathIdle == pc = "idle" /\ EditPath

PressScanIdle == pc = "idle" /\ PressScan

NextUninterrupted ==
    \/ EditApiKeyIdle
    \/ EditPathIdle
    \/ PressScanIdle
    \/ ScanFile
    \/ FinishScan
    \/ Ask

SpecUninterrupted == Init /\ [][NextUninterrupted]_vars

-----------------------------------------------------------------------------
(* make_api_call on its own: every key, prompt and HTTP exchange *)

ApiPrompts == { Q_GENERAL, Q_FILE, summary_prompt(A_PY, Chars(<<"h", "i">>)) }

InitApi ==
    /\ api_key = ""
    /\ path_input = ""
    /\ session_state = InitialSession
    /\ pc = "api"
    /\ files_to_process = << >>
    /\ i = 1
    /\ chat_visible = FALSE
    /\ run = NoRun
    /\ ev \in { [kind |-> "api_input", key |-> key, prompt |-> prompt, http |-> http] :
                  key \in ApiKeys, prompt \in ApiPrompts, http \in AllHttpOutcomes }

ApiCall ==
    /\ pc = "api"
    /\ pc' = "api_done"
    /\ ev' = [kind |-> "api_call", key |-> ev.key, prompt |-> ev.prompt, http |-> ev.http,
              result |-> make_api_call(ev.key, ev.prompt, ev.http)]
    /\ UNCHANGED <<api_key, path_input, session_state, files_to_process, i,
                   chat_visible, run>>

NextApi == ApiCall

SpecApi == InitApi /\ [][NextApi]_vars

-----------------------------------------------------------------------------
(* Mention detection on its own: every question up to MaxQLen characters *)

TILDE_A_PY == Chars(<<"~", "a", ".", "p", "y">>)
LOWER_README_MD == Chars(<<"r", "e", "a", "d", "m", "e", ".", "m", "d">>)

Alphabet == {"a", "A", ".", "p", "y", "Y", "~"}

\* every string of at most max_len characters of the alphabet
AllQuestions(max_len) ==
    UNION { { Chars(f) : f \in [1..len -> Alphabet] } : len \in 0..max_len }

Known(names) ==
    [k \in DOMAIN names |->
        [name |-> names[k], path |-> Join("d", names[k]), summary |-> << >>]]

MentionSessions ==
    { Known(<< A_PY >>), Known(<< TILDE_A_PY >>), Known(<< A_PY, LOWER_README_MD >>) }

InitMention ==
    /\ api_key = ""
    /\ path_input = ""
    /\ session_state = InitialSession
    /\ pc = "mention"
    /\ files_to_process = << >>
    /\ i = 1
    /\ chat_visible = FALSE
    /\ run = NoRun
    /\ ev \in { [kind |-> "mention_input", scanned_files |-> known, question |-> q] :
                  known \in MentionSessions, q \in AllQuestions(MaxQLen) \cup {Q_FILE} }

Detect ==
    /\ pc = "mention"
    /\ pc' = "mention_done"
    /\ ev' = [kind |-> "mention", scanned_files |-> ev.scanned_files,
              question |-> ev.question,
              matches |-> [k \in DOMAIN ev.scanned_files |->
                              re_search(ev.scanned_files[k].name, ev.question)],
              mentioned |-> mentioned_file(ev.scanned_files, ev.question)]
    /\ UNCHANGED <<api_key, path_input, session_state, files_to_process, i,
                   chat_visible, run>>

NextMention == Detect

SpecMention == InitMention /\ [][NextMention]_vars

-----------------------------------------------------------------------------
(* The vocabulary of the properties *)

KeyMissing == Lit("[Error: API key not provided]")

messages == session_state.messages
scanned_files == session_state.scanned_files

\* the summary stored for the file of the last loop iteration
StoredSummary == Lookup(scanned_files, ev.file.name).summary

\* a text with a character that is not whitespace
NonBlank(text) == \E k \in DOMAIN text : text[k].ch \notin Whitespace

Min(a, b) == IF a <= b THEN a ELSE b

\* the k-th character of a text
RECURSIVE CharAt(_, _)
CharAt(s, k) == IF k <= Head(s).n THEN Head(s).ch ELSE CharAt(Tail(s), k - Head(s).n)

\* the prompt the Completion Client was given: what it posted if it posted
SentPrompt(posted, prompt) == IF posted # << >> THEN posted[1].text ELSE prompt

\* the file content a summarization prompt carries after its template
SummaryContent(prompt, file_name) == SubSeq(prompt, Len(file_name) + 3, Len(prompt))

\* the file content a grounding prompt carries between its template's pieces
GroundedContent(prompt, question, file_name) ==
    SubSeq(prompt, Len(question) + Len(file_name) + 4, Len(prompt) - 1)

\* name occurs in question, in any letter case, with no word character next to it
WholeWord(name, question) ==
    \E p \in 0..(Len(question) - Len(name)) :
        /\ \A k \in DOMAIN name : LowerChar(question[p + k].ch) = LowerChar(name[k].ch)
        /\ ~WordAt(question, p)
        /\ ~WordAt(question, p + Len(name) + 1)

\* the session with another transcript and other summaries
Variant(session, transcript, summary) ==
    [session EXCEPT !.messages = transcript,
                    !.scanned_files = [k \in DOMAIN @ |-> [@[k] EXCEPT !.summary = summary]]]

OtherTranscripts ==
    { << >>,
      << [role |-> "user", content |-> Q_FILE],
         [role |-> "assistant", content |-> CouldNotRead] >>,
      << [role |-> "user", content |-> Q_GENERAL],
         [role |-> "assistant", content |-> A_PY],
         [role |-> "user", content |-> Q_FILE] >> }

OtherSummaries == { << >>, KeyMissing, Q_FILE }

-----------------------------------------------------------------------------
(* The properties *)

\* C1: a Scan press with an empty API key, or with a directory path that is
\* empty or not a directory, reports an error, and that run walks no directory,
\* extracts no file and makes no completion call.
C1_ConfigErrorDoesNoWork ==
    (run.button /\ (api_key = "" \/ path_input = "" \/ ~isdir(path_input)))
        => /\ run.error
           /\ ~run.walked
           /\ run.extracts = 0
           /\ run.calls = 0

\* C2: make_api_call returns a string and raises nothing, whatever the key, the
\* prompt and the outcome of the HTTP exchange.
C2_NeverRaises == ev.kind = "api_call" => ev.result.exc = ""

\* C3: at the end of every script run the transcript has even length and its
\* entries alternate user, assistant, user, assistant.
C3_TranscriptAlternates ==
    pc = "idle" =>
        /\ Len(messages) % 2 = 0
        /\ \A k \in DOMAIN messages :
              messages[k].role = IF k % 2 = 1 THEN "user" ELSE "assistant"

\* C4: whenever a chat question is accepted, the session mapping holds an entry
\* for every file the directory scan selected.
C4_SessionCompleteAtChat ==
    ev.kind = "chat" =>
        \A k \in DOMAIN files_to_process : HasKey(scanned_files, files_to_process[k].name)

\* C5: a known file name matches a question exactly when the question contains
\* it, in any letter case, as a whole word; and with the session {a.py,
\* readme.md} the question "what does a.py do?" selects a.py.
C5_MentionIsWholeWord ==
    ev.kind = "mention" =>
        /\ \A k \in DOMAIN ev.scanned_files :
              ev.matches[k] = WholeWord(ev.scanned_files[k].name, ev.question)
        /\ (ev.scanned_files = Known(<< A_PY, LOWER_README_MD >>) /\ ev.question = Q_FILE)
              => ev.mentioned = Str(A_PY)

\* C6: the prompt a chat turn gives the Completion Client is the same in every
\* session that differs from this one only in its prior chat turns and in its
\* stored summaries: no prior turn and no summary enters a prompt.
C6_PromptIgnoresHistory ==
    (ev.kind = "chat" /\ ev.turn.called) =>
        \A transcript \in OtherTranscripts, summary \in OtherSummaries :
           \E other \in { Respond(Variant(session_state, transcript, summary), api_key,
                                  ev.question,
                                  IF ev.turn.extracted THEN ev.parsed ELSE ParsedText(<< >>),
                                  HttpTimeout) } :
              /\ other.called
              /\ SentPrompt(other.posted, other.final_prompt)
                    = SentPrompt(ev.turn.posted, ev.turn.final_prompt)

\* a chat turn that calls the Completion Client after an earlier, completed turn
C6_Witness ==
    /\ ev.kind = "chat"
    /\ ev.turn.called
    /\ ev.turn.extracted
    /\ ev.turn.posted # << >>
    /\ Len(messages) = 4

\* C7, as claimed: in a scan with an empty API key every iteration goes through,
\* posts nothing, and records "[Error: API key not provided]" as the file's summary.
C7_MarkerForEveryFile ==
    (ev.kind = "scan_file" /\ api_key = "") =>
        /\ ev.exc = ""
        /\ ev.posted = << >>
        /\ HasKey(scanned_files, ev.file.name)
        /\ StoredSummary = KeyMissing

\* C7, amended: with an empty API key no run posts a request or ends in an
\* exception; every iteration of the scan stores a summary and goes on to the
\* next file, the scan reaches its end with an entry for every file, and the
\* summary stored is "[Error: API key not provided]" exactly for the files whose
\* extracted text is not blank; the others keep their own marker.
C7_MarkerForEveryReadableFile ==
    /\ api_key = "" => (run.exc = "" /\ run.posts = 0)
    /\ (ev.kind = "scan_file" /\ api_key = "") =>
          /\ ev.exc = ""
          /\ ev.posted = << >>
          /\ pc = "scan"
          /\ HasKey(scanned_files, ev.file.name)
          /\ IF ~ev.parsed.raises /\ NonBlank(Take(ev.parsed.text, SummaryCap))
             THEN ev.called /\ ev.returned = KeyMissing /\ StoredSummary = KeyMissing
             ELSE ~ev.called /\ StoredSummary \in {CouldNotRead, EmptyFile}
    /\ (ev.kind = "scan_done" /\ api_key = "") =>
          /\ run.extracts = Len(files_to_process)
          /\ \A k \in DOMAIN files_to_process :
                HasKey(scanned_files, files_to_process[k].name)

\* a scan with an empty API key that has reached its end, over several files, one
\* of them summarized by the marker and one not
C7_Witness ==
    /\ ev.kind = "scan_done"
    /\ api_key = ""
    /\ Len(files_to_process) > 1
    /\ \E k \in DOMAIN scanned_files : scanned_files[k].summary = KeyMissing
    /\ \E k \in DOMAIN scanned_files : scanned_files[k].summary = CouldNotRead

\* C8: the content a summarization prompt carries is the first 15,000 characters
\* of the file's text (all of it when it is shorter), never more; the content a
\* file-grounded chat prompt carries is the whole text.
C8_ContentCap ==
    /\ (ev.kind = "scan_file" /\ ev.called) =>
          \E sent \in { SummaryContent(SentPrompt(ev.posted, ev.prompt), ev.file.name) } :
             /\ sent = Take(ev.parsed.text, SummaryCap)
             /\ TextLen(sent) = Min(TextLen(ev.parsed.text), SummaryCap)
             /\ \A k \in {1, TextLen(sent)} \ {0} : CharAt(sent, k) = CharAt(ev.parsed.text, k)
    /\ (ev.kind = "chat" /\ ev.turn.extracted /\ ev.turn.called /\ ~ev.parsed.raises) =>
          \E sent \in { GroundedContent(SentPrompt(ev.turn.posted, ev.turn.final_prompt),
                                        ev.question, ev.turn.mentioned.s) } :
             /\ sent = ev.parsed.text
             /\ TextLen(sent) = TextLen(ev.parsed.text)

\* a summarization prompt, posted, for a file longer than the cap
C8_Witness ==
    /\ ev.kind = "scan_file"
    /\ ev.called
    /\ ev.posted # << >>
    /\ TextLen(ev.parsed.text) > SummaryCap

\* C9: each iteration of the scan stores "[Could not read file]" without a
\* completion call if the extraction fails; else "[File is empty or contains no
\* readable text]" without a completion call if the extracted text is empty or
\* blank; else the return value of its one completion call; and goes on to the
\* next file.
C9_SummaryOutcome ==
    ev.kind = "scan_file" =>
        /\ ev.exc = ""
        /\ pc = "scan"
        /\ HasKey(scanned_files, ev.file.name)
        /\ IF ev.parsed.raises
           THEN ~ev.called /\ StoredSummary = CouldNotRead
           ELSE IF ~NonBlank(Take(ev.parsed.text, SummaryCap))
           THEN ~ev.called /\ StoredSummary = EmptyFile
           ELSE ev.called /\ StoredSummary = ev.returned

\* C10: a chat turn that mentions a known file extracts it again in full; if
\* that fails it answers with the message naming the file and the error and
\* makes no completion call; if it succeeds it makes one completion call with
\* the grounding prompt; a turn that mentions no file makes one completion call
\* with the question itself; no turn makes more than one call.
C10_ChatBranches ==
    ev.kind = "chat" =>
        /\ run.calls <= 1
        /\ IF ev.turn.mentioned = None
           THEN run.calls = 1 /\ run.extracts = 0 /\ ev.turn.final_prompt = ev.question
           ELSE /\ run.extracts = 1
                /\ IF ev.parsed.raises
                   THEN /\ run.calls = 0
                        /\ messages[Len(messages)].content
                             = sorry(ev.turn.mentioned.s, Str(ev.parsed.message))
                   ELSE /\ run.calls = 1
                        /\ ev.turn.final_prompt
                             = grounding_prompt(ev.question, ev.turn.mentioned.s,
                                                Str(ev.parsed.text))

====
